---- MODULE Spec2Model ----
(***************************************************************************)
(* A model of notebooks/demo_functions.py of radar-datatree: the NEXRAD    *)
(* file lister, the Z-R rain depth, the cross-VCP sweep concatenation and  *)
(* the quasi-vertical profile.  Every function of the file is a pure       *)
(* function of its arguments (and of the bucket's contents), so each is an *)
(* operator, and each specification draws the arguments from bounded sets  *)
(* in its initial states and applies the function in its one action.       *)
(***************************************************************************)
EXTENDS Integers, Sequences, FiniteSets

VARIABLES
    bucket,        \* the objects stored in s3://unidata-nexrad-level2
    listArgs,      \* [radar, start_dt, end_dt] of a list_nexrad_files call
    listResult,    \* what list_nexrad_files returned
    z,             \* the reflectivity DataArray given to rain_depth
    rainArgs,      \* [a, b, t] of a rain_depth call
    rainResult,    \* what rain_depth returned or raised
    dtree,         \* the DataTree given to concat_sweep_across_vcps
    concatArgs,    \* [sweep_name, validate_coords, sort_by_time, group_prefix]
    concatResult,  \* what concat_sweep_across_vcps returned, raised and warned
    ds,            \* the Dataset given to compute_qvp
    qvpResult      \* what compute_qvp returned or raised

vars == <<bucket, listArgs, listResult, z, rainArgs, rainResult,
          dtree, concatArgs, concatResult, ds, qvpResult>>

listVars == <<bucket, listArgs, listResult>>
rainVars == <<z, rainArgs, rainResult>>
concatVars == <<dtree, concatArgs, concatResult>>
qvpVars == <<ds, qvpResult>>

\* No call made yet / the component is not part of this specification.
NotCalled == [kind |-> "not_called"]
Unused == [kind |-> "unused"]

(***************************************************************************)
(* Helpers on sequences.                                                   *)
(***************************************************************************)
Range(s) == {s[i] : i \in DOMAIN s}

RECURSIVE SumSeq(_)
SumSeq(s) == IF s = <<>> THEN 0 ELSE s[1] + SumSeq(Tail(s))

\* Insert index i into the index sequence p, sorted by keys, after its equals.
RECURSIVE InsertIdx(_, _, _)
InsertIdx(i, p, keys) ==
    IF p = <<>> THEN <<i>>
    ELSE IF keys[i] < keys[p[1]] THEN <<i>> \o p
    ELSE <<p[1]>> \o InsertIdx(i, Tail(p), keys)

\* The stable sorting permutation of a sequence of integer keys.
RECURSIVE SortPerm(_, _)
SortPerm(keys, n) ==
    IF n = 0 THEN <<>> ELSE InsertIdx(n, SortPerm(keys, n - 1), keys)

\* Python's sorted(key=...) / xarray's sortby(): s in the stable order of keys.
SortByKeys(s, keys) ==
    LET p == SortPerm(keys, Len(s)) IN [i \in 1..Len(s) |-> s[p[i]]]

RECURSIVE SetToSeq(_)
SetToSeq(S) ==
    IF S = {} THEN <<>>
    ELSE LET x == CHOOSE y \in S : TRUE IN <<x>> \o SetToSeq(S \ {x})

RECURSIVE Flatten(_)
Flatten(ss) == IF ss = <<>> THEN <<>> ELSE ss[1] \o Flatten(Tail(ss))

\* the subsets of S with at most n elements
SubsetsUpTo(S, n) == {T \in SUBSET S : Cardinality(T) <= n}

(***************************************************************************)
(* list_nexrad_files.  A datetime is a number of seconds since 00:00:00 of *)
(* day 0.  An object of the bucket is [dir, site, stamp, ok]: it is stored *)
(* under <dir as Y/m/d>/<site>/ and its file name is <site> followed by    *)
(* the 15 characters that "%Y%m%d_%H%M%S" parses to stamp when ok, and     *)
(* that strptime rejects when not ok.  The bucket files every volume under *)
(* the date of its file name.                                              *)
(***************************************************************************)
MaxDay == 1
MaxFiles == 2
DaySeconds == 86400

Days == 0..MaxDay
Radars == {"KVNX", "KTLX"}
\* times of day of the call's bounds ("%H:%M": whole minutes) and of the files
BoundTimesOfDay == {0, 43200, 86340}
StampTimesOfDay == {0, 43200, 86399}
BoundTimes == {d * DaySeconds + m : d \in Days, m \in BoundTimesOfDay}

Candidates ==
    {[dir |-> d, site |-> r, stamp |-> d * DaySeconds + m, ok |-> TRUE] :
        d \in Days, r \in Radars, m \in StampTimesOfDay}
    \cup {[dir |-> d, site |-> r, stamp |-> d * DaySeconds, ok |-> FALSE] :
        d \in Days, r \in Radars}

\* strftime("%Y/%m/%d"): the calendar day of a datetime
DateStr(dt) == dt \div DaySeconds

\* f"s3://{path}"
S3Path(f) == [scheme |-> "s3://", path |-> f]

\* fs.glob(f"{prefix}*"): the objects under <date>/<radar>/ whose name starts
\* with the radar code, in the order of their names
Glob(b, date_str, radar) ==
    LET found == SetToSeq({f \in b : f.dir = date_str /\ f.site = radar})
    IN SortByKeys(found, [i \in 1..Len(found) |-> found[i].stamp])

\* the body of "for path in paths": the paths kept from one day's listing
RECURSIVE KeepInWindow(_, _, _)
KeepInWindow(paths, start_dt, end_dt) ==
    IF paths = <<>> THEN <<>>
    ELSE LET f == paths[1]
             rest == KeepInWindow(Tail(paths), start_dt, end_dt)
         IN IF ~f.ok THEN rest                      \* strptime raises: continue
            ELSE IF start_dt <= f.stamp /\ f.stamp <= end_dt
                 THEN <<S3Path(f)>> \o rest
                 ELSE rest

\* the step of the while loop
NextDay(current_dt) == current_dt + DaySeconds

\* "while current_dt <= end_dt": file_list after the loop
RECURSIVE ListLoop(_, _, _, _, _, _)
ListLoop(b, radar, current_dt, start_dt, end_dt, file_list) ==
    IF current_dt <= end_dt
    THEN ListLoop(b, radar, NextDay(current_dt), start_dt, end_dt,
                  file_list \o KeepInWindow(Glob(b, DateStr(current_dt), radar),
                                            start_dt, end_dt))
    ELSE file_list

list_nexrad_files(b, radar, start_dt, end_dt) ==
    LET file_list == ListLoop(b, radar, start_dt, start_dt, end_dt, <<>>)
    IN SortByKeys(file_list, [i \in 1..Len(file_list) |-> file_list[i].path.stamp])

InitList ==
    /\ bucket \in SubsetsUpTo(Candidates, MaxFiles)
    /\ listArgs \in [radar : Radars, start_dt : BoundTimes, end_dt : BoundTimes]
    /\ listResult = NotCalled
    /\ z = Unused
    /\ rainArgs = Unused
    /\ rainResult = Unused
    /\ dtree = Unused
    /\ concatArgs = Unused
    /\ concatResult = Unused
    /\ ds = Unused
    /\ qvpResult = Unused

CallList ==
    /\ listResult = NotCalled
    /\ listResult' = [kind |-> "returned",
                      files |-> list_nexrad_files(bucket, listArgs.radar,
                                                  listArgs.start_dt, listArgs.end_dt)]
    /\ UNCHANGED <<bucket, listArgs, rainVars, concatVars, qvpVars>>

NextList == CallList

SpecList == InitList /\ [][NextList]_vars


(***************************************************************************)
(* rain_depth.  z is [has_vcp_time, vcp_time, values]: the vcp_time        *)
(* coordinate in minutes and one reflectivity in dBZ per timestep (the     *)
(* arithmetic is elementwise, so one value per timestep stands for the     *)
(* whole scan).  The inputs are those on which the Z-R relationship is     *)
(* exact in integers: dBZ values that are multiples of 10, a dividing the  *)
(* linear reflectivity, and 1/b an exact root of the quotient.  A depth is *)
(* a number of 1/120 mm, so that rate [mm/h] * minutes / 60 is             *)
(* rate * minutes * 2, and the median of an even number of intervals (the  *)
(* mean of the two middle ones) stays an integer.                          *)
(***************************************************************************)
MaxSteps == 3
NaN == -1

TimeGrid == {0, 5, 10, 20}
DbzValues == {20, 40}
ZRa == {1, 100}
ZRb == {1, 2}
FixedT == {[given |-> FALSE], [given |-> TRUE, minutes |-> 6]}

RECURSIVE Pow(_, _)
Pow(x, n) == IF n = 0 THEN 1 ELSE x * Pow(x, n - 1)

\* x ** (1 / b), on the x that are b-th powers
Root(x, b) == CHOOSE r \in 0..x : Pow(r, b) = x

\* float arithmetic with nan
Mul(x, y) == IF x = NaN \/ y = NaN THEN NaN ELSE x * y

\* the increasing sequence of the elements of a set of integers
Ascending(S) ==
    LET e == SetToSeq(S) IN SortByKeys(e, e)

\* z.vcp_time.diff("vcp_time"), in minutes: one interval less than timesteps
Diff(times) == [i \in 1..(Len(times) - 1) |-> times[i + 1] - times[i]]

\* twice time_diffs.median(), in minutes; nan when there is no interval
Median2(diffs) ==
    LET n == Len(diffs)
        srt == SortByKeys(diffs, diffs)
    IN IF n = 0 THEN NaN
       ELSE IF n % 2 = 1 THEN 2 * srt[(n + 1) \div 2]
       ELSE srt[n \div 2] + srt[n \div 2 + 1]

\* 10 ** (z / 10), then (z_lin / a) ** (1 / b): mm/h
RainRate(dbz, a, b) == Root(Pow(10, dbz \div 10) \div a, b)

\* the interval the rate of every timestep is multiplied by (twice, in minutes)
IntegrationTime2(zz, t) ==
    IF t.given THEN 2 * t.minutes ELSE Median2(Diff(zz.vcp_time))

rain_depth(zz, a, b, t) ==
    IF ~t.given /\ ~zz.has_vcp_time
    THEN [kind |-> "ValueError"]
    ELSE [kind |-> "returned",
          name |-> "precip_depth",
          attrs |-> [units |-> "mm",
                     long_name |-> "precipitation depth per timestep",
                     description |-> [a |-> a, b |-> b]],
          values |-> [i \in 1..Len(zz.values) |->
                        Mul(RainRate(zz.values[i], a, b), IntegrationTime2(zz, t))]]

InitRain ==
    /\ bucket = {}
    /\ listArgs = Unused
    /\ listResult = Unused
    /\ dtree = Unused
    /\ concatArgs = Unused
    /\ concatResult = Unused
    /\ ds = Unused
    /\ qvpResult = Unused
    /\ \E n \in 1..MaxSteps :
         \E T \in {S \in SUBSET TimeGrid : Cardinality(S) = n} :
         \E v \in [1..n -> DbzValues] :
         \E dim \in BOOLEAN :
            z = [has_vcp_time |-> dim,
                 vcp_time |-> IF dim THEN Ascending(T) ELSE <<>>,
                 values |-> v]
    /\ rainArgs \in [a : ZRa, b : ZRb, t : FixedT]
    /\ rainResult = NotCalled

CallRainDepth ==
    /\ rainResult = NotCalled
    /\ rainResult' = rain_depth(z, rainArgs.a, rainArgs.b, rainArgs.t)
    /\ UNCHANGED <<z, rainArgs, listVars, concatVars, qvpVars>>

NextRain == CallRainDepth

SpecRain == InitRain /\ [][NextRain]_vars


(***************************************************************************)
(* concat_sweep_across_vcps.  A group name is a sequence of characters, a  *)
(* path string is [abs, parts]: whether it starts with "/" and the names   *)
(* between its slashes.  A DataTree is [groups, ds, time_is_coord]:        *)
(* dtree.groups (the absolute path of every node, root first), the dataset *)
(* of every sweep node, and whether vcp_time is a coordinate of the        *)
(* datasets.  A dataset is [rows, azimuth, range]: one row [t, v] per step *)
(* along vcp_time (its time and its data) and the sizes of the two other   *)
(* dimensions.                                                             *)
(***************************************************************************)
MaxVcps == 2

VcpPrefix == <<"V", "C", "P", "-">>
Digits == <<"1", "2", "3", "4", "5", "6", "7", "8", "9">>
VcpName(i) == VcpPrefix \o <<Digits[i]>>
Sweep0 == <<"s", "w", "e", "e", "p", "_", "0">>
Sweep1 == <<"s", "w", "e", "e", "p", "_", "1">>
Spatial == <<"s", "p", "a", "t", "i", "a", "l">>
Decoy == <<"V", "C", "P", "X">>

None == [given |-> FALSE]
Str(name) == [given |-> TRUE, name |-> name]

\* str.startswith
StartsWith(s, prefix) ==
    /\ Len(s) >= Len(prefix)
    /\ SubSeq(s, 1, Len(prefix)) = prefix

\* node_path.strip("/").split("/"): the root "/" gives [""]
Parts(path) == IF path.parts = <<>> THEN << <<>> >> ELSE path.parts

\* a defect: "if group_prefix is not None:"
IsNotNone(p) == p.given

\* "if group_prefix:": neither None nor the empty string
Truthy(p) == p.given /\ p.name # <<>>

AbsPath(parts) == [abs |-> TRUE, parts |-> parts]
RelPath(parts) == [abs |-> FALSE, parts |-> parts]

\* whether the loop over dtree.groups records node_path as a VCP node
IsVcpNode(path, group_prefix) ==
    LET parts == Parts(path)
    IN IF Truthy(group_prefix)
       THEN /\ Len(parts) >= 2
            /\ parts[1] = group_prefix.name
            /\ StartsWith(parts[2], VcpPrefix)
            /\ Len(parts) = 2
       ELSE /\ Len(parts) >= 1
            /\ StartsWith(parts[1], VcpPrefix)
            /\ Len(parts) = 1

\* the keys of vcp_nodes, in insertion order
RECURSIVE VcpNodes(_, _)
VcpNodes(groups, group_prefix) ==
    IF groups = <<>> THEN <<>>
    ELSE LET before == VcpNodes(SubSeq(groups, 1, Len(groups) - 1), group_prefix)
             path == groups[Len(groups)]
             parts == Parts(path)
             vcp_name == IF Truthy(group_prefix) THEN parts[2] ELSE parts[1]
         IN IF IsVcpNode(path, group_prefix) /\ vcp_name \notin Range(before)
            THEN Append(before, vcp_name)
            ELSE before

\* sweep_path and sweep_path_alt of a VCP
SweepPath(vcp_name, sweep_name, group_prefix) ==
    AbsPath(IF Truthy(group_prefix)
            THEN <<group_prefix.name, vcp_name, sweep_name>>
            ELSE <<vcp_name, sweep_name>>)

SweepPathAlt(vcp_name, sweep_name, group_prefix) ==
    RelPath(SweepPath(vcp_name, sweep_name, group_prefix).parts)

\* whether the sweep of a VCP is found in dtree.groups, under either path
HasSweep(dt, vcp_name, sweep_name, group_prefix) ==
    \/ SweepPath(vcp_name, sweep_name, group_prefix) \in Range(dt.groups)
    \/ SweepPathAlt(vcp_name, sweep_name, group_prefix) \in Range(dt.groups)

\* sweep_datasets: (vcp_name, sweep_ds) of the VCPs that have the sweep
RECURSIVE SweepDatasets(_, _, _, _)
SweepDatasets(dt, names, sweep_name, group_prefix) ==
    IF names = <<>> THEN <<>>
    ELSE LET rest == SweepDatasets(dt, Tail(names), sweep_name, group_prefix)
         IN IF HasSweep(dt, names[1], sweep_name, group_prefix)
            THEN << [vcp |-> names[1],
                     ds |-> dt.ds[SweepPath(names[1], sweep_name, group_prefix).parts]] >>
                 \o rest
            ELSE rest

\* a defect: the VCPs without the sweep are not recorded
NoSkippedVcps(dt, names, sweep_name, group_prefix) == <<>>

\* skipped_vcps
RECURSIVE SkippedVcps(_, _, _, _)
SkippedVcps(dt, names, sweep_name, group_prefix) ==
    IF names = <<>> THEN <<>>
    ELSE LET rest == SkippedVcps(dt, Tail(names), sweep_name, group_prefix)
         IN IF HasSweep(dt, names[1], sweep_name, group_prefix)
            THEN rest
            ELSE <<names[1]>> \o rest

\* a defect: the range sizes are not compared
AzimuthDiffers(sweep_ds, reference_ds) == sweep_ds.azimuth # reference_ds.azimuth

\* the comparison of one sweep with the reference sweep
SizesDiffer(sweep_ds, reference_ds) ==
    \/ sweep_ds.azimuth # reference_ds.azimuth
    \/ sweep_ds.range # reference_ds.range

\* the validation loop raises
CoordMismatch(sweep_datasets) ==
    \E i \in 2..Len(sweep_datasets) :
        SizesDiffer(sweep_datasets[i].ds, sweep_datasets[1].ds)

\* xr.concat(datasets_only, dim=append_dim)
XrConcat(sweep_datasets) ==
    Flatten([i \in 1..Len(sweep_datasets) |-> sweep_datasets[i].ds.rows])

\* a defect: the result is left in the order of the VCP nodes
Unsorted(rows) == rows

\* concatenated.sortby(append_dim)
SortByTime(rows) == SortByKeys(rows, [i \in 1..Len(rows) |-> rows[i].t])

concat_sweep_across_vcps(dt, sweep_name, validate_coords, sort_by_time, group_prefix) ==
    LET vcp_nodes == VcpNodes(dt.groups, group_prefix)
        sweep_datasets == SweepDatasets(dt, vcp_nodes, sweep_name, group_prefix)
        skipped_vcps == SkippedVcps(dt, vcp_nodes, sweep_name, group_prefix)
        concatenated == XrConcat(sweep_datasets)
    IN IF vcp_nodes = <<>>
       THEN [kind |-> "ValueError", msg |-> "No VCP nodes found", warned |-> <<>>]
       ELSE IF sweep_datasets = <<>>
       THEN [kind |-> "ValueError", msg |-> "Sweep not found in any VCP nodes",
             warned |-> <<>>]
       ELSE IF validate_coords /\ Len(sweep_datasets) > 1 /\ CoordMismatch(sweep_datasets)
       THEN [kind |-> "ValueError", msg |-> "Coordinate mismatch",
             warned |-> skipped_vcps]
       ELSE [kind |-> "returned",
             rows |-> IF sort_by_time /\ dt.time_is_coord
                      THEN SortByTime(concatenated)
                      ELSE concatenated,
             warned |-> skipped_vcps]


(***************************************************************************)
(* The DataTrees of the initial states: up to MaxVcps VCP groups at the    *)
(* root, in either order, and optionally a "spatial" group holding VCP     *)
(* groups of the same names and a group that is no VCP.  A VCP group holds *)
(* sweep_0, or sweep_1 alone, each with one of four datasets.              *)
(***************************************************************************)
DsA == [rows |-> << [t |-> 1, v |-> "a1"], [t |-> 3, v |-> "a2"] >>,
        azimuth |-> 360, range |-> 100]
DsB == [rows |-> << [t |-> 0, v |-> "b1"], [t |-> 2, v |-> "b2"] >>,
        azimuth |-> 360, range |-> 100]
DsC == [rows |-> << [t |-> 2, v |-> "c1"] >>, azimuth |-> 720, range |-> 100]
DsD == [rows |-> << [t |-> 4, v |-> "d1"] >>, azimuth |-> 360, range |-> 200]
SweepData == {DsA, DsB, DsC, DsD}

Absent == [present |-> FALSE]
OnlySweep1 == [present |-> TRUE, sweep |-> Sweep1, ds |-> DsA]
WithSweep0(d) == [present |-> TRUE, sweep |-> Sweep0, ds |-> d]
VcpOptions == {Absent, OnlySweep1} \cup {WithSweep0(d) : d \in SweepData}

\* the nodes of one VCP group under parent: the group, then its sweep
VcpEntries(parent, name, opt) ==
    IF ~opt.present THEN <<>>
    ELSE << [parts |-> parent \o <<name>>, is_sweep |-> FALSE, ds |-> Unused],
            [parts |-> parent \o <<name, opt.sweep>>, is_sweep |-> TRUE, ds |-> opt.ds] >>

SpatialOptions ==
    {Absent} \cup
    {[present |-> TRUE, vcp1 |-> o1, vcp2 |-> o2, decoy |-> o3] :
        o1 \in {Absent, OnlySweep1, WithSweep0(DsA)},
        o2 \in {Absent, WithSweep0(DsB)},
        o3 \in {Absent, WithSweep0(DsC)}}

SpatialEntries(opt) ==
    IF ~opt.present THEN <<>>
    ELSE << [parts |-> <<Spatial>>, is_sweep |-> FALSE, ds |-> Unused] >>
         \o VcpEntries(<<Spatial>>, VcpName(1), opt.vcp1)
         \o VcpEntries(<<Spatial>>, VcpName(2), opt.vcp2)
         \o VcpEntries(<<Spatial>>, Decoy, opt.decoy)

RootEntries(opts, reversed) ==
    Flatten([k \in 1..MaxVcps |->
        LET i == IF reversed THEN MaxVcps + 1 - k ELSE k
        IN VcpEntries(<<>>, VcpName(i), opts[i])])

BuildTree(opts, reversed, spatial, time_is_coord) ==
    LET entries == << [parts |-> <<>>, is_sweep |-> FALSE, ds |-> Unused] >>
                   \o RootEntries(opts, reversed) \o SpatialEntries(spatial)
        sweeps == {i \in 1..Len(entries) : entries[i].is_sweep}
    IN [groups |-> [i \in 1..Len(entries) |-> AbsPath(entries[i].parts)],
        ds |-> [p \in {entries[i].parts : i \in sweeps} |->
                  entries[CHOOSE i \in sweeps : entries[i].parts = p].ds],
        time_is_coord |-> time_is_coord]

InitConcat ==
    /\ bucket = {}
    /\ listArgs = Unused
    /\ listResult = Unused
    /\ z = Unused
    /\ rainArgs = Unused
    /\ rainResult = Unused
    /\ ds = Unused
    /\ qvpResult = Unused
    /\ \E opts \in [1..MaxVcps -> VcpOptions] :
         \E reversed \in BOOLEAN :
         \E spatial \in SpatialOptions :
         \E time_is_coord \in BOOLEAN :
            dtree = BuildTree(opts, reversed, spatial, time_is_coord)
    /\ concatArgs \in [sweep_name : {Sweep0, Sweep1},
                       validate_coords : BOOLEAN,
                       sort_by_time : BOOLEAN,
                       group_prefix : {None, Str(<<>>), Str(Spatial)}]
    /\ concatResult = NotCalled

CallConcat ==
    /\ concatResult = NotCalled
    /\ concatResult' = concat_sweep_across_vcps(dtree, concatArgs.sweep_name,
                           concatArgs.validate_coords, concatArgs.sort_by_time,
                           concatArgs.group_prefix)
    /\ UNCHANGED <<dtree, concatArgs, listVars, rainVars, qvpVars>>

NextConcat == CallConcat

SpecConcat == InitConcat /\ [][NextConcat]_vars


(***************************************************************************)
(* compute_qvp.  ds is [var, attrs, dims, values, range, sweep_fixed_angle]*)
(* : the one variable asked for, values[t][a][r] in whole units (dB, or    *)
(* whatever attrs.units says) or NaN, the range coordinate in metres and   *)
(* the fixed angle of every timestep in degrees.  Floats are quantised: a  *)
(* mean is rounded down to a whole unit, 10 * log10 to a whole dB (by the  *)
(* table of 10 ** (d / 10) to three decimals), and a height is a number of *)
(* 1/2000 km, so that range * sin(angle) / 1000 is range * (2 sin(angle)), *)
(* on the angles whose sine is a multiple of 1/2.                          *)
(***************************************************************************)
MaxCells == 4

CellValues == {0, 20, NaN}
AngleValues == {30, 90, 150, NaN}
UnitsValues == {None, Str(<<>>), Str(<<"d", "B">>), Str(<<"d", "B", "Z">>),
                Str(<<"d", "e", "g">>)}
QvpVars == {"DBZH", "PHIDP"}
DbPrefix == <<"d", "B">>
\* 1000 * 10 ** (d / 10) for d = 0..9
TenthDecade == <<1000, 1259, 1585, 1995, 2512, 3162, 3981, 5012, 6310, 7943>>
\* the angles with 2 * sin(angle) an integer
ExactAngles == {30, 90, 150}

\* the whole dB values a mean of the cell values can take
WholeDb == 0..30

\* 1000 * 10 ** (d / 10)
Lin1000(d) == Pow(10, d \div 10) * TenthDecade[(d % 10) + 1]

\* 10 ** (x / 10) of a whole number of decades, nan kept
ToLinear(x) == IF x = NaN THEN NaN ELSE Pow(10, x \div 10)

NotNaN(s) == {i \in DOMAIN s : s[i] # NaN}

\* sum and count of the values that are not nan
SkipnaSum(s) == SumSeq([i \in 1..Len(s) |-> IF s[i] = NaN THEN 0 ELSE s[i]])
SkipnaCount(s) == Cardinality(NotNaN(s))

\* mean(skipna=True), rounded down; nan when every value is nan
SkipnaMean(s) ==
    IF SkipnaCount(s) = 0 THEN NaN ELSE SkipnaSum(s) \div SkipnaCount(s)

\* 10 * np.log10(mean of the linear values s), rounded down to a whole dB
DbOfLinearMean(s) ==
    IF SkipnaCount(s) = 0 THEN NaN
    ELSE CHOOSE d \in WholeDb :
            /\ Lin1000(d) * SkipnaCount(s) <= 1000 * SkipnaSum(s)
            /\ Lin1000(d + 1) * SkipnaCount(s) > 1000 * SkipnaSum(s)

\* a defect: the mean of the dB values themselves, whatever the units
PlainAzimuthMean(units, cells) == SkipnaMean(cells)

\* the branch on units.startswith("dB"): the mean over azimuth of one (t, r)
AzimuthMean(units, cells) ==
    IF StartsWith(units, DbPrefix)
    THEN DbOfLinearMean([i \in 1..Len(cells) |-> ToLinear(cells[i])])
    ELSE SkipnaMean(cells)

\* 2 * np.sin(angle * np.pi / 180.0)
Sin2(angle) == IF angle = 90 THEN 2 ELSE 1

\* range * sin(mean sweep_fixed_angle) / 1000, in 1/2000 km
Height(range_m, angles) ==
    Mul(range_m, IF SkipnaMean(angles) = NaN THEN NaN ELSE Sin2(SkipnaMean(angles)))

\* DataArray.mean(dim): the dimension is dropped
RECURSIVE DropDim(_, _)
DropDim(dims, dim) ==
    IF dims = <<>> THEN <<>>
    ELSE IF dims[1] = dim THEN DropDim(Tail(dims), dim)
    ELSE <<dims[1]>> \o DropDim(Tail(dims), dim)

\* DataArray.rename({old: new})
RenameDim(dims, old, new) ==
    [i \in 1..Len(dims) |-> IF dims[i] = old THEN new ELSE dims[i]]

compute_qvp(dd, var) ==
    IF ~dd.attrs.given
    THEN [kind |-> "KeyError"]
    ELSE [kind |-> "returned",
          name |-> [prefix |-> "qvp_", var |-> var],
          dims |-> RenameDim(DropDim(dd.dims, "azimuth"), "range", "height"),
          values |-> [t \in 1..Len(dd.values) |->
                        [r \in 1..Len(dd.range) |->
                           AzimuthMean(dd.attrs.name,
                              [a \in 1..Len(dd.values[t]) |-> dd.values[t][a][r]])]],
          height |-> [r \in 1..Len(dd.range) |->
                        Height(dd.range[r], dd.sweep_fixed_angle)]]

\* the shapes (timesteps, azimuths, range gates) of at most MaxCells cells
Shapes ==
    {sh \in [nt : 1..MaxCells, na : 1..MaxCells, nr : 1..MaxCells] :
        sh.nt * sh.na * sh.nr <= MaxCells}

RangeGate(r) == 250 * r

InitQvp ==
    /\ bucket = {}
    /\ listArgs = Unused
    /\ listResult = Unused
    /\ z = Unused
    /\ rainArgs = Unused
    /\ rainResult = Unused
    /\ dtree = Unused
    /\ concatArgs = Unused
    /\ concatResult = Unused
    /\ \E sh \in Shapes :
         \E vals \in [1..sh.nt -> [1..sh.na -> [1..sh.nr -> CellValues]]] :
         \E angles \in [1..sh.nt -> AngleValues] :
         \E units \in UnitsValues :
         \E var \in QvpVars :
            /\ SkipnaCount(angles) > 0 =>
                  /\ SkipnaSum(angles) % SkipnaCount(angles) = 0
                  /\ SkipnaMean(angles) \in ExactAngles
            /\ ds = [var |-> var,
                     attrs |-> units,
                     dims |-> <<"vcp_time", "azimuth", "range">>,
                     values |-> vals,
                     range |-> [r \in 1..sh.nr |-> RangeGate(r)],
                     sweep_fixed_angle |-> angles]
    /\ qvpResult = NotCalled

CallQvp ==
    /\ qvpResult = NotCalled
    /\ qvpResult' = compute_qvp(ds, ds.var)
    /\ UNCHANGED <<ds, listVars, rainVars, concatVars>>

NextQvp == CallQvp

SpecQvp == InitQvp /\ [][NextQvp]_vars

(***************************************************************************)
(* The whole file: any one of the functions, called once on its inputs.    *)
(***************************************************************************)
Init == InitList \/ InitRain \/ InitConcat \/ InitQvp

Next == CallList \/ CallRainDepth \/ CallConcat \/ CallQvp

Spec == Init /\ [][Next]_vars

(***************************************************************************)
(* Properties of list_nexrad_files.                                        *)
(***************************************************************************)
\* the files of the radar whose file name holds a timestamp in [start, end]
InWindow(b, radar, start_dt, end_dt) ==
    {f \in b : f.ok /\ f.site = radar /\ start_dt <= f.stamp /\ f.stamp <= end_dt}

\* C1: for start_time <= end_time, whatever their times of day, the paths
\* returned are exactly those of the radar's files whose timestamp lies in
\* [start_time, end_time]: none in the window is missing, none outside it is
\* returned.
ListReturnsExactlyWindow ==
    (listResult.kind = "returned" /\ listArgs.start_dt <= listArgs.end_dt)
    => Range(listResult.files) =
         {S3Path(f) : f \in InWindow(bucket, listArgs.radar,
                                     listArgs.start_dt, listArgs.end_dt)}

(***************************************************************************)
(* Properties of rain_depth.                                               *)
(***************************************************************************)
\* C2: with t=None the depth of a timestep is its rain rate times the time
\* difference between the scans at that timestep, so timesteps of equal rate
\* and different scan intervals get different depths.
RainDepthUsesScanIntervals ==
    (rainResult.kind = "returned" /\ ~rainArgs.t.given)
    => LET n == Len(z.values)
           dt == Diff(z.vcp_time)
           rate(i) == RainRate(z.values[i], rainArgs.a, rainArgs.b)
       IN /\ \A i \in 2..n : rainResult.values[i] = rate(i) * 2 * dt[i - 1]
          /\ \A i, j \in 2..n :
                (rate(i) = rate(j) /\ dt[i - 1] # dt[j - 1])
                => rainResult.values[i] # rainResult.values[j]

(***************************************************************************)
(* Properties of concat_sweep_across_vcps, stated on the tree itself.      *)
(***************************************************************************)
ConcatCalled == concatResult.kind \in {"returned", "ValueError"}

NamedVcp(name) ==
    /\ Len(name) >= 4
    /\ name[1] = "V" /\ name[2] = "C" /\ name[3] = "P" /\ name[4] = "-"

\* the groups named VCP-* that are children of the group at path base
VcpGroupsAt(dt, base) ==
    {g.parts : g \in {h \in Range(dt.groups) :
        /\ Len(h.parts) = Len(base) + 1
        /\ SubSeq(h.parts, 1, Len(base)) = base
        /\ NamedVcp(h.parts[Len(h.parts)])}}

\* where the VCPs are looked for: the root, or the group group_prefix names
BaseOf(group_prefix) ==
    IF ~group_prefix.given \/ group_prefix.name = <<>>
    THEN <<>> ELSE <<group_prefix.name>>

\* the same, reading every group_prefix other than None as the name of a group
BaseIfGiven(group_prefix) ==
    IF ~group_prefix.given THEN <<>> ELSE <<group_prefix.name>>

VcpGroups == VcpGroupsAt(dtree, BaseOf(concatArgs.group_prefix))

\* the VCP groups that have the requested sweep, and those that lack it
Found ==
    {v \in VcpGroups :
        AbsPath(v \o <<concatArgs.sweep_name>>) \in Range(dtree.groups)}
Lacking == VcpGroups \ Found

SweepOf(v) == dtree.ds[v \o <<concatArgs.sweep_name>>]

CountIn(s, x) == Cardinality({i \in DOMAIN s : s[i] = x})

RECURSIVE CountInSweeps(_, _)
CountInSweeps(V, x) ==
    IF V = {} THEN 0
    ELSE LET v == CHOOSE w \in V : TRUE
         IN CountIn(SweepOf(v).rows, x) + CountInSweeps(V \ {v}, x)

RECURSIVE TotalLength(_)
TotalLength(V) ==
    IF V = {} THEN 0
    ELSE LET v == CHOOSE w \in V : TRUE
         IN Len(SweepOf(v).rows) + TotalLength(V \ {v})

AllRows == UNION {Range(d.rows) : d \in SweepData}

\* every step of every found sweep is in the result once, and nothing else is
HoldsExactlyFoundSweeps ==
    /\ \A x \in AllRows : CountIn(concatResult.rows, x) = CountInSweeps(Found, x)
    /\ Range(concatResult.rows) \subseteq AllRows

\* C3: a result with sort_by_time=True holds every time step of the chosen
\* sweep of every VCP node that has it exactly once, its length is the sum of
\* the sweeps' lengths, and its vcp_time coordinate (when vcp_time is a
\* coordinate) is nondecreasing, whatever the order of the VCP nodes.
ConcatSortedHoldsAllSteps ==
    (concatResult.kind = "returned" /\ concatArgs.sort_by_time)
    => /\ HoldsExactlyFoundSweeps
       /\ Len(concatResult.rows) = TotalLength(Found)
       /\ dtree.time_is_coord
          => \A i \in 1..(Len(concatResult.rows) - 1) :
                concatResult.rows[i].t <= concatResult.rows[i + 1].t

\* two VCPs given in the order B, A come out interleaved by time
ConcatSortedWitness ==
    /\ concatResult.kind = "returned"
    /\ concatArgs.sort_by_time
    /\ dtree.time_is_coord
    /\ Len(concatResult.rows) = 4
    /\ concatResult.rows[1].v = "b1"
    /\ concatResult.rows[2].v = "a1"
    /\ concatResult.rows[3].v = "b2"
    /\ dtree.groups[2].parts = <<VcpName(2)>>

\* the groups the code records in vcp_nodes, as paths
RecordedVcps(base) ==
    {base \o <<n>> : n \in Range(VcpNodes(dtree.groups, concatArgs.group_prefix))}

NoVcpError ==
    concatResult.kind = "ValueError" /\ concatResult.msg = "No VCP nodes found"

ConcatSkipsLackingVcps ==
    ConcatCalled
    => /\ (VcpGroups # {} /\ Found = {})
          => (concatResult.kind = "ValueError"
              /\ concatResult.msg = "Sweep not found in any VCP nodes")
       /\ (VcpGroups # {} /\ Found # {})
          => /\ Len(concatResult.warned) = Cardinality(Lacking)
             /\ {BaseOf(concatArgs.group_prefix) \o <<n>> :
                    n \in Range(concatResult.warned)} = Lacking
       /\ concatResult.kind = "returned" => HoldsExactlyFoundSweeps

ConcatSkipsWitness ==
    /\ concatResult.kind = "returned"
    /\ Lacking # {}
    /\ Cardinality(Found) >= 1
    /\ concatResult.warned # <<>>

SameSizes(d, e) == d.azimuth = e.azimuth /\ d.range = e.range

MismatchError ==
    concatResult.kind = "ValueError" /\ concatResult.msg = "Coordinate mismatch"

\* C6: with validate_coords=True and two or more sweeps found, ValueError is
\* raised whenever two found sweeps differ in azimuth size or in range size,
\* and a dataset is returned only when all agree in both; with
\* validate_coords=False that ValueError is never raised.
ConcatValidatesSizes ==
    ConcatCalled
    => /\ (concatArgs.validate_coords /\ Cardinality(Found) >= 2)
          => /\ MismatchError
                <=> \E v, w \in Found : ~SameSizes(SweepOf(v), SweepOf(w))
             /\ concatResult.kind = "returned"
                => \A v, w \in Found : SameSizes(SweepOf(v), SweepOf(w))
       /\ ~concatArgs.validate_coords => ~MismatchError

\* refused for the range sizes alone
ConcatValidatesWitness ==
    /\ MismatchError
    /\ concatArgs.validate_coords
    /\ Cardinality(Found) >= 2
    /\ \A v, w \in Found : SweepOf(v).azimuth = SweepOf(w).azimuth

(***************************************************************************)
(* Properties of compute_qvp.                                              *)
(***************************************************************************)
RECURSIVE SumOver(_, _)
SumOver(f, S) ==
    IF S = {} THEN 0
    ELSE LET x == CHOOSE y \in S : TRUE IN f[x] + SumOver(f, S \ {x})

UnitsAreDb ==
    /\ Len(ds.attrs.name) >= 2
    /\ ds.attrs.name[1] = "d"
    /\ ds.attrs.name[2] = "B"

Azimuths == 1..Len(ds.values[1])

\* the azimuths of (t, r) that hold a value
Valid(t, r) == {a \in Azimuths : ds.values[t][a][r] # NaN}

\* q is the whole-unit value of the plain mean of the valid values of (t, r)
IsPlainMean(q, t, r) ==
    LET n == Cardinality(Valid(t, r))
        total == SumOver([a \in Azimuths |-> ds.values[t][a][r]], Valid(t, r))
    IN /\ q * n <= total
       /\ total < (q + 1) * n

\* q is the whole-dB value of the mean of the linear values of (t, r):
\* 10 ** (q / 10) <= mean < 10 ** ((q + 1) / 10)
IsDbOfLinearMean(q, t, r) ==
    LET n == Cardinality(Valid(t, r))
        total == SumOver([a \in Azimuths |-> Pow(10, ds.values[t][a][r] \div 10)],
                         Valid(t, r))
    IN /\ q >= 0
       /\ Lin1000(q) * n <= 1000 * total
       /\ 1000 * total < Lin1000(q + 1) * n

MeanAngleIs(m) ==
    LET valid == {t \in DOMAIN ds.sweep_fixed_angle : ds.sweep_fixed_angle[t] # NaN}
    IN /\ valid # {}
       /\ m * Cardinality(valid) = SumOver(ds.sweep_fixed_angle, valid)

\* C7: for a variable that has a units attribute, the result is the mean over
\* azimuth of the values that are not missing, taken on the linear values and
\* turned back to dB if and only if units starts with "dB", and the plain
\* mean otherwise; it has no azimuth dimension, keeps the time dimension, is
\* named qvp_<var>, and its range is replaced by
\* height = range * sin(mean sweep_fixed_angle) / 1000.
QvpIsAzimuthMean ==
    qvpResult.kind = "returned"
    => /\ qvpResult.dims = <<"vcp_time", "height">>
       /\ qvpResult.name = [prefix |-> "qvp_", var |-> ds.var]
       /\ Len(qvpResult.values) = Len(ds.values)
       /\ \A t \in DOMAIN ds.values :
            /\ Len(qvpResult.values[t]) = Len(ds.range)
            /\ \A r \in DOMAIN ds.range :
                 LET q == qvpResult.values[t][r]
                 IN IF Valid(t, r) = {} THEN q = NaN
                    ELSE IF UnitsAreDb THEN IsDbOfLinearMean(q, t, r)
                    ELSE IsPlainMean(q, t, r)
       /\ Len(qvpResult.height) = Len(ds.range)
       /\ \A r \in DOMAIN ds.range :
            \/ /\ \A m \in ExactAngles : ~MeanAngleIs(m)
               /\ qvpResult.height[r] = NaN
            \/ \E m \in ExactAngles :
                 /\ MeanAngleIs(m)
                 /\ qvpResult.height[r] = ds.range[r] * (IF m = 90 THEN 2 ELSE 1)

\* 0 dB and 20 dB average to 17 dB, not to 10; two angles average to 90 degrees
QvpWitness ==
    /\ qvpResult.kind = "returned"
    /\ UnitsAreDb
    /\ Len(ds.values) = 2
    /\ Len(ds.values[1]) = 2
    /\ ds.values[1][1][1] = 0
    /\ ds.values[1][2][1] = 20
    /\ qvpResult.values[1][1] = 17
    /\ ds.values[2][1][1] = NaN
    /\ qvpResult.values[2][1] = 20
    /\ ds.sweep_fixed_angle = <<30, 150>>
    /\ qvpResult.height[1] = 500

====
